---------------------------- MODULE Spec2Model ----------------------------
(***************************************************************************)
(* A model of the SQL static-analysis core of last-supper:                 *)
(*   - lib/dialects/registry.py  (dialect registry)                        *)
(*   - lib/sql_parser.py         (MultiDialectSQLParser, IdentifierSet)    *)
(*   - the hallucination detector consumed by agents/evaluator.py          *)
(*                                                                         *)
(* Python's Optional[T] is modelled as a sequence of length at most one:   *)
(* None is << >> and a present value v is << v >>.  Strings are drawn from *)
(* a small alphabet on which str.lower() is tabulated.                     *)
(***************************************************************************)
EXTENDS Integers, Sequences, FiniteSets, TLC

VARIABLES
    default_dialect,   \* MultiDialectSQLParser.default_dialect
    DIALECT_CONFIGS,   \* the registry's module-level dict
    lib,               \* how sqlglot treats the SQL text under analysis
    frame,             \* per thread: the locals of a running parse call
    ret,               \* per thread: the ParsedSQL returned by the last call
    ast,               \* the statement tree handed to the extractor
    stage,             \* position of the extract/validate pipeline
    parsed,            \* ParsedSQL built from ast
    schema,            \* SchemaSnapshot.table_names with their columns
    report,            \* the detector's ValidationReport
    calls,             \* the calls made to the registry, with what they gave
    state,             \* GameEngine.state (GameState)
    engine,            \* GameEngine: position in run and its locals
    evaluator,         \* SQLEvaluator: schema and found_clues
    adapter,           \* SQLiteAdapter: connection and database contents
    storyteller        \* StorytellerAgent: the API and conversation_history

parseVars == <<default_dialect, DIALECT_CONFIGS, lib, frame, ret>>
extractVars == <<ast, stage, parsed, schema, report>>
gameVars == <<state, engine, evaluator, adapter, storyteller>>
vars == <<default_dialect, DIALECT_CONFIGS, lib, frame, ret,
          ast, stage, parsed, schema, report,
          calls, state, engine, evaluator, adapter, storyteller>>

-----------------------------------------------------------------------------
(* Bounds *)

NumThreads == 2
MaxNodes == 3
MaxCalls == 3
MaxHints == 1

Threads == 1..NumThreads

-----------------------------------------------------------------------------
(* Python values *)

None == << >>
Some(v) == << v >>

\* truthiness of an Optional[str]: None and "" are falsy
Truthy(o) == o # None /\ o[1] # ""

\* str.lower() on the alphabet of the model
Lower(s) ==
    CASE s = "SQLite" -> "sqlite"
      [] s = "Recent" -> "recent"
      [] s = "X"      -> "x"
      [] s = "Orders" -> "orders"
      [] s = "RID"    -> "rid"
      [] s = "QUIT"   -> "quit"
      [] s = "Sofia Chen" -> "sofia chen"
      [] OTHER        -> s

\* str.upper() on the class names the function walk meets
Upper(s) ==
    CASE s = "Sum"   -> "SUM"
      [] s = "Count" -> "COUNT"
      [] s = "Iif"   -> "IIF"
      [] s = "with"  -> "WITH"
      [] OTHER       -> s

\* the elements of a list
Range(seq) == { seq[i] : i \in DOMAIN seq }

\* [x for x in seq if x in keep]
RECURSIVE Keep(_, _)
Keep(seq, keep) ==
    IF seq = << >> THEN << >>
    ELSE (IF Head(seq) \in keep THEN << Head(seq) >> ELSE << >>) \o Keep(Tail(seq), keep)

\* d[k] = v on a dict
DictPut(d, k, v) == [x \in (DOMAIN d) \cup {k} |-> IF x = k THEN v ELSE d[x]]

EmptyDict == [x \in {} |-> ""]

RECURSIVE DedupFrom(_, _)
DedupFrom(s, seen) ==
    IF s = << >> THEN << >>
    ELSE IF Head(s) \in seen THEN DedupFrom(Tail(s), seen)
    ELSE << Head(s) >> \o DedupFrom(Tail(s), seen \cup {Head(s)})

\* a variant that keeps the last occurrence of each entry
DedupKeepLast(s) ==
    LET reversed(q) == [i \in DOMAIN q |-> q[Len(q) + 1 - i]]
    IN  reversed(DedupFrom(reversed(s), {}))

\* a variant that keeps every entry
DedupKeepAll(s) == s

\* list(dict.fromkeys(s))
Dedup(s) == DedupFrom(s, {})

-----------------------------------------------------------------------------
(* Dialect registry *)

\* the values of the Dialect enum
Dialect == {"sqlite", "postgresql", "bigquery", "snowflake", "duckdb", "mysql"}

SQLITE_CONFIG ==
    [name |-> "sqlite", sqlglot_dialect |-> "sqlite", supports_schemas |-> FALSE,
     supports_cte |-> TRUE, supports_window_functions |-> TRUE,
     supports_json |-> TRUE, supports_arrays |-> FALSE]

InitialConfigs == [d \in {"sqlite"} |-> SQLITE_CONFIG]

\* a variant that describes every value of the Dialect enum
get_dialect_config_of_enum(configs, dialect) ==
    IF Lower(dialect) \in Dialect THEN Some(SQLITE_CONFIG) ELSE None

\* get_dialect_config: the descriptor, or None when ValueError is raised
get_dialect_config(configs, dialect) ==
    IF Lower(dialect) \in Dialect /\ Lower(dialect) \in DOMAIN configs
    THEN Some(configs[Lower(dialect)])
    ELSE None

get_supported_dialects(configs) == {d \in Dialect : d \in DOMAIN configs}

-----------------------------------------------------------------------------
(* Statement trees.                                                        *)
(* A tree is given by what ast.find_all yields for each node class:        *)
(*   ctes, selects, tables, columns, funcs, subqueries (sequences).        *)
(* A projected expression is [cls, alias, name, output_name], the values   *)
(* of the node's class and of its alias, name and output_name properties.  *)
(* A defining query is [cls, expressions, inner]: its class, its own       *)
(* projection list when it is a Select, and the projection lists of the    *)
(* Select nodes below it in find_all order.                                *)

EmptyTree ==
    [ctes |-> << >>, selects |-> << >>, tables |-> << >>,
     columns |-> << >>, funcs |-> << >>, subqueries |-> << >>]

\* IdentifierSet(...) followed by __post_init__
IdentifierSet(tables, columns, functions, aliases, select_aliases, cte_columns) ==
    [tables |-> Dedup(tables), columns |-> Dedup(columns),
     functions |-> Dedup(functions), aliases |-> aliases,
     select_aliases |-> select_aliases, cte_columns |-> cte_columns]

\* a variant that reports a stale table list for a missing tree
StaleIdentifierSet ==
    IdentifierSet(<< "orders" >>, << >>, << >>, EmptyDict, {}, [x \in {} |-> {}])

\* IdentifierSet() with every field defaulted
EmptyIdentifierSet ==
    IdentifierSet(<< >>, << >>, << >>, EmptyDict, {}, [x \in {} |-> {}])

_get_expression_output_name(expr) ==
    IF expr.cls = "Alias" THEN expr.alias
    ELSE IF expr.alias # "" THEN expr.alias
    ELSE IF expr.cls = "Column" THEN expr.name
    ELSE expr.output_name

\* the loop shared by _extract_cte_columns and _extract_subquery_columns
OutputNames(expressions) ==
    { Lower(_get_expression_output_name(expressions[i])) :
        i \in { j \in DOMAIN expressions :
                  _get_expression_output_name(expressions[j]) # "" } }

_extract_cte_columns(cte) ==
    IF cte.this = None THEN {}
    ELSE LET cte_query == cte.this[1]
             select == IF cte_query.cls = "Select" THEN Some(cte_query.expressions)
                       ELSE IF cte_query.inner # << >> THEN Some(cte_query.inner[1])
                       ELSE None
         IN  IF select # None /\ select[1] # << >> THEN OutputNames(select[1]) ELSE {}

_extract_subquery_columns(subquery) ==
    IF subquery.this # None /\ subquery.this[1].cls = "Select"
       /\ subquery.this[1].expressions # << >>
    THEN OutputNames(subquery.this[1].expressions)
    ELSE {}

_extract_select_aliases(select) ==
    { Lower(select[i].alias) : i \in { j \in DOMAIN select : select[j].alias # "" } }

name_mapping ==
    [c \in {"Anonymous", "Count", "Sum"} |->
        CASE c = "Anonymous" -> "ANONYMOUS" [] c = "Count" -> "COUNT" [] c = "Sum" -> "SUM"]

\* func is [cls, sql_name]: sql_name is None when func.sql_name() raises
_get_function_name(func) ==
    IF func.sql_name # None THEN Upper(func.sql_name[1])
    ELSE IF func.cls \in DOMAIN name_mapping THEN name_mapping[func.cls]
    ELSE Upper(func.cls)

\* a variant that records the exported columns of a CTE without registering
\* its alias
RECURSIVE CteLoopNoAlias(_, _)
CteLoopNoAlias(ctes, acc) ==
    IF ctes = << >> THEN acc
    ELSE LET cte == Head(ctes)
             cte_cols == _extract_cte_columns(cte)
         IN  CteLoopNoAlias(Tail(ctes),
                IF cte.alias # "" /\ cte_cols # {}
                THEN [acc EXCEPT !.cte_columns =
                         DictPut(acc.cte_columns, Lower(cte.alias), cte_cols)]
                ELSE acc)

\* for cte in ast.find_all(exp.CTE)
RECURSIVE CteLoop(_, _)
CteLoop(ctes, acc) ==
    IF ctes = << >> THEN acc
    ELSE LET cte == Head(ctes)
             cte_cols == _extract_cte_columns(cte)
         IN  CteLoop(Tail(ctes),
                IF cte.alias # ""
                THEN [aliases |-> DictPut(acc.aliases, cte.alias, "(cte)"),
                      cte_columns |->
                         IF cte_cols # {}
                         THEN DictPut(acc.cte_columns, Lower(cte.alias), cte_cols)
                         ELSE acc.cte_columns]
                ELSE acc)

RECURSIVE SelectLoop(_, _)
SelectLoop(selects, select_aliases) ==
    IF selects = << >> THEN select_aliases
    ELSE SelectLoop(Tail(selects),
                    select_aliases \cup _extract_select_aliases(Head(selects)))

\* the name appended for a Table node
TableName(table) ==
    LET n0 == table.name
        n1 == IF table.db # "" THEN table.db \o "." \o n0 ELSE n0
    IN  IF table.catalog # "" THEN table.catalog \o "." \o n1 ELSE n1

\* a variant that registers every table under its alias or, without one,
\* under its own name
RECURSIVE TableLoopAliasAll(_, _)
TableLoopAliasAll(tables, acc) ==
    IF tables = << >> THEN acc
    ELSE LET table == Head(tables)
             name == TableName(table)
             key == IF table.alias # "" THEN table.alias ELSE table.name
         IN  TableLoopAliasAll(Tail(tables),
                [tables |-> IF name # "" THEN Append(acc.tables, name) ELSE acc.tables,
                 aliases |-> IF key # ""
                             THEN DictPut(acc.aliases, key, table.name)
                             ELSE acc.aliases])

\* for table in ast.find_all(exp.Table)
RECURSIVE TableLoop(_, _)
TableLoop(tables, acc) ==
    IF tables = << >> THEN acc
    ELSE LET table == Head(tables)
             name == TableName(table)
         IN  TableLoop(Tail(tables),
                [tables |-> IF name # "" THEN Append(acc.tables, name) ELSE acc.tables,
                 aliases |-> IF table.alias # ""
                             THEN DictPut(acc.aliases, table.alias, table.name)
                             ELSE acc.aliases])

\* for col in ast.find_all(exp.Column)
RECURSIVE ColumnLoop(_, _)
ColumnLoop(cols, columns) ==
    IF cols = << >> THEN columns
    ELSE LET col == Head(cols)
             name == IF col.table # "" THEN col.table \o "." \o col.name ELSE col.name
         IN  ColumnLoop(Tail(cols),
                        IF name # "" THEN Append(columns, name) ELSE columns)

\* for func in ast.find_all(exp.Func)
RECURSIVE FuncLoop(_, _)
FuncLoop(funcs, functions) ==
    IF funcs = << >> THEN functions
    ELSE LET func_name == _get_function_name(Head(funcs))
         IN  FuncLoop(Tail(funcs),
                      IF func_name # "" THEN Append(functions, func_name) ELSE functions)

\* a variant that keeps an alias already registered (dict.setdefault)
RECURSIVE SubqueryLoopSetDefault(_, _)
SubqueryLoopSetDefault(subqueries, acc) ==
    IF subqueries = << >> THEN acc
    ELSE LET subquery == Head(subqueries)
             subq_cols == _extract_subquery_columns(subquery)
         IN  SubqueryLoopSetDefault(Tail(subqueries),
                IF subquery.alias # ""
                THEN [aliases |-> IF subquery.alias \in DOMAIN acc.aliases
                                  THEN acc.aliases
                                  ELSE DictPut(acc.aliases, subquery.alias, "(subquery)"),
                      cte_columns |->
                         IF subq_cols # {}
                         THEN DictPut(acc.cte_columns, Lower(subquery.alias), subq_cols)
                         ELSE acc.cte_columns]
                ELSE acc)

\* for subquery in ast.find_all(exp.Subquery)
RECURSIVE SubqueryLoop(_, _)
SubqueryLoop(subqueries, acc) ==
    IF subqueries = << >> THEN acc
    ELSE LET subquery == Head(subqueries)
             subq_cols == _extract_subquery_columns(subquery)
         IN  SubqueryLoop(Tail(subqueries),
                IF subquery.alias # ""
                THEN [aliases |-> DictPut(acc.aliases, subquery.alias, "(subquery)"),
                      cte_columns |->
                         IF subq_cols # {}
                         THEN DictPut(acc.cte_columns, Lower(subquery.alias), subq_cols)
                         ELSE acc.cte_columns]
                ELSE acc)

\* _extract_identifiers(ast) for an Optional tree
_extract_identifiers(tree) ==
    IF tree = None THEN EmptyIdentifierSet
    ELSE LET t == tree[1]
             c == CteLoop(t.ctes, [aliases |-> EmptyDict, cte_columns |-> [x \in {} |-> {}]])
             sa == SelectLoop(t.selects, {})
             tb == TableLoop(t.tables, [tables |-> << >>, aliases |-> c.aliases])
             cl == ColumnLoop(t.columns, << >>)
             fn == FuncLoop(t.funcs, << >>)
             sq == SubqueryLoop(t.subqueries,
                                [aliases |-> tb.aliases, cte_columns |-> c.cte_columns])
         IN  IdentifierSet(tb.tables, cl, fn, sq.aliases, sa, sq.cte_columns)

-----------------------------------------------------------------------------
(* Node constructors and the statement the parser model works on *)

ExprAlias(alias, name) ==
    [cls |-> "Alias", alias |-> alias, name |-> name, output_name |-> alias]
ExprColumn(name) ==
    [cls |-> "Column", alias |-> "", name |-> name, output_name |-> name]
ExprStar == [cls |-> "Star", alias |-> "", name |-> "*", output_name |-> "*"]
ExprLiteral(text) ==
    [cls |-> "Literal", alias |-> "", name |-> text, output_name |-> text]
ExprFunc(cls) == [cls |-> cls, alias |-> "", name |-> "", output_name |-> ""]

QuerySelect(expressions) ==
    [cls |-> "Select", expressions |-> expressions, inner |-> << >>]
QueryUnion(left, right) ==
    [cls |-> "Union", expressions |-> << >>, inner |-> << left, right >>]

TableNode(catalog, db, name, alias) ==
    [catalog |-> catalog, db |-> db, name |-> name, alias |-> alias]
ColumnNode(table, name) == [table |-> table, name |-> name]
CteNode(alias, query) == [alias |-> alias, this |-> Some(query)]
SubqueryNode(alias, query) == [alias |-> alias, this |-> Some(query)]

\* WITH recent AS (SELECT id AS rid FROM orders) SELECT rid FROM recent
SampleTree ==
    [ctes |-> << CteNode("recent", QuerySelect(<< ExprAlias("rid", "id") >>)) >>,
     selects |-> << << ExprColumn("rid") >>, << ExprAlias("rid", "id") >> >>,
     tables |-> << TableNode("", "", "recent", ""), TableNode("", "", "orders", "") >>,
     columns |-> << ColumnNode("", "rid"), ColumnNode("", "id") >>,
     funcs |-> << >>,
     subqueries |-> << >>]

-----------------------------------------------------------------------------
(* sqlglot as seen by the parser.                                          *)
(* lib fixes, for the SQL text under analysis, the set of read dialects    *)
(* under which sqlglot.parse_one succeeds, the class of the error it       *)
(* raises otherwise, whether the error-tolerant parse yields a tree, and   *)
(* whether walking the tree raises.  A dialect name sqlglot does not know  *)
(* makes parse_one raise ValueError.                                       *)

KnownReads == {Some("sqlite"), Some("postgres"), Some("duckdb"), Some("bigquery"), None}

ErrorTypes == {"ParseError", "TokenError"}

Libs ==
    [parses : SUBSET KnownReads, errtype : ErrorTypes,
     lenient : BOOLEAN, walk_raises : BOOLEAN]

ReadName(read) == IF read = None THEN "generic" ELSE read[1]

\* str(e)
Str(e) == e.type \o "@" \o e.read

\* sqlglot.parse_one(sql, read=read): [ast, e], exactly one of them present
parse_one(l, read) ==
    IF read \notin KnownReads
    THEN [ast |-> None, e |-> Some([type |-> "ValueError", read |-> ReadName(read)])]
    ELSE IF read \in l.parses
    THEN [ast |-> Some(SampleTree), e |-> None]
    ELSE [ast |-> None, e |-> Some([type |-> l.errtype, read |-> ReadName(read)])]

\* sqlglot.parse_one(sql, error_level=ErrorLevel.IGNORE)
parse_one_lenient(l) ==
    IF l.lenient
    THEN [ast |-> Some(SampleTree), e |-> None]
    ELSE [ast |-> None, e |-> Some([type |-> l.errtype, read |-> "lenient"])]

-----------------------------------------------------------------------------
(* MultiDialectSQLParser.parse, one step per call into sqlglot *)

\* the dialect arguments callers pass (None selects default_dialect)
DialectArgs == {None, Some("SQLite"), Some("postgres"), Some("klingon")}

fallback_order ==
    << Some("sqlite"), Some("postgres"), Some("duckdb"), Some("bigquery"), None >>

IdleFrame ==
    [pc |-> "idle", arg |-> None, dialect |-> "", sqlglot_dialect |-> "",
     idx |-> 0, ast |-> None, fallback_dialect |-> None, e |-> None,
     attempts |-> << >>, lenient_read |-> << >>]

ParsedSQL(tree, dialect, identifiers, is_valid, parse_error) ==
    [ast |-> tree, dialect |-> dialect, identifiers |-> identifiers,
     is_valid |-> is_valid, parse_error |-> parse_error]

\* a variant that forgets to clear is_valid
FailedParsedSQLValid(dialect, e) ==
    ParsedSQL(None, dialect, EmptyIdentifierSet, TRUE, Some(Str(e)))

\* the ParsedSQL of lines 88-95 and 98-105
FailedParsedSQL(dialect, e) ==
    ParsedSQL(None, dialect, EmptyIdentifierSet, FALSE, Some(Str(e)))

\* a or b on Optional[str]
Or(a, b) == IF Truthy(a) THEN a ELSE b

\* lines 55-61: the effective dialect and the parser hint
CallFrame(t, arg) ==
    /\ frame[t].pc \in {"idle", "done", "raised"}
    /\ LET dialect == Or(arg, Some(default_dialect))[1]
           config == get_dialect_config(DIALECT_CONFIGS, dialect)
           sqlglot_dialect == IF config # None THEN config[1].sqlglot_dialect
                              ELSE dialect
       IN  frame' = [frame EXCEPT ![t] =
                        [IdleFrame EXCEPT !.pc = "primary", !.arg = arg,
                                          !.dialect = dialect,
                                          !.sqlglot_dialect = sqlglot_dialect]]
    /\ ret' = [ret EXCEPT ![t] = None]

\* a variant that stores the effective dialect in the parser object
CallStoringDefault(t, arg) ==
    /\ CallFrame(t, arg)
    /\ default_dialect' = Or(arg, Some(default_dialect))[1]
    /\ UNCHANGED <<DIALECT_CONFIGS, lib>>

\* parse is entered: nothing but the locals of the call is written
Call(t, arg) ==
    /\ CallFrame(t, arg)
    /\ UNCHANGED <<default_dialect, DIALECT_CONFIGS, lib>>

\* lines 63-73, and 97-105 for anything but a ParseError
Primary(t) ==
    /\ frame[t].pc = "primary"
    /\ LET f == frame[t]
           r == parse_one(lib, Some(f.sqlglot_dialect))
           tried == Append(f.attempts, Some(f.sqlglot_dialect))
       IN  IF r.ast # None
           THEN IF lib.walk_raises
                THEN /\ frame' = [frame EXCEPT ![t].pc = "done", ![t].attempts = tried]
                     /\ ret' = [ret EXCEPT ![t] =
                           Some(FailedParsedSQL(f.dialect,
                                   [type |-> "WalkError", read |-> f.sqlglot_dialect]))]
                ELSE /\ frame' = [frame EXCEPT ![t].pc = "done", ![t].attempts = tried]
                     /\ ret' = [ret EXCEPT ![t] =
                           Some(ParsedSQL(r.ast, f.dialect, _extract_identifiers(r.ast),
                                          TRUE, None))]
           ELSE IF r.e[1].type = "ParseError"
           THEN /\ frame' = [frame EXCEPT ![t].pc = "fallback", ![t].idx = 1,
                                          ![t].e = r.e, ![t].attempts = tried]
                /\ UNCHANGED ret
           ELSE /\ frame' = [frame EXCEPT ![t].pc = "done", ![t].e = r.e,
                                          ![t].attempts = tried]
                /\ ret' = [ret EXCEPT ![t] = Some(FailedParsedSQL(f.dialect, r.e[1]))]
    /\ UNCHANGED <<default_dialect, DIALECT_CONFIGS, lib>>

\* where the loop of _parse_with_fallback goes after entry idx
AfterFallback(idx) == IF idx < Len(fallback_order) THEN "fallback" ELSE "lenient"

\* lines 110-117: one iteration of the loop over fallback_order
Fallback(t) ==
    /\ frame[t].pc = "fallback"
    /\ LET f == frame[t]
           fallback == fallback_order[f.idx]
           r == parse_one(lib, fallback)
       IN  IF fallback = Some(f.dialect)
           THEN frame' = [frame EXCEPT ![t].pc = AfterFallback(f.idx),
                                       ![t].idx = f.idx + 1]
           ELSE IF r.ast # None
           THEN frame' = [frame EXCEPT ![t].pc = "handler", ![t].ast = r.ast,
                                       ![t].fallback_dialect = fallback,
                                       ![t].attempts = Append(f.attempts, fallback)]
           ELSE frame' = [frame EXCEPT ![t].pc = AfterFallback(f.idx),
                                       ![t].idx = f.idx + 1,
                                       ![t].attempts = Append(f.attempts, fallback)]
    /\ UNCHANGED <<default_dialect, DIALECT_CONFIGS, lib, ret>>

\* lines 120-123: parse_one is called without a read argument
LenientRead(f) == None

\* lines 119-126: the error-tolerant parse
Lenient(t) ==
    /\ frame[t].pc = "lenient"
    /\ LET f == frame[t]
           r == parse_one_lenient(lib)
       IN  frame' = [frame EXCEPT ![t].pc = "handler",
                        ![t].ast = r.ast,
                        ![t].fallback_dialect =
                            IF r.ast # None THEN Some(f.dialect) ELSE None,
                        ![t].attempts = Append(f.attempts, Some("lenient")),
                        ![t].lenient_read = << LenientRead(f) >>]
    /\ UNCHANGED <<default_dialect, DIALECT_CONFIGS, lib, ret>>

\* a variant reporting the diagnostic of the last attempt
LastDiagnostic(f) ==
    IF parse_one_lenient(lib).e # None THEN parse_one_lenient(lib).e[1] ELSE f.e[1]

\* line 94: e is the exception bound by the except clause of line 75
HandlerDiagnostic(f) == f.e[1]

\* lines 78-95: the rest of the ParseError handler
Handler(t) ==
    /\ frame[t].pc = "handler"
    /\ LET f == frame[t]
       IN  IF f.ast # None
           THEN IF lib.walk_raises
                THEN /\ frame' = [frame EXCEPT ![t].pc = "raised"]
                     /\ UNCHANGED ret
                ELSE /\ frame' = [frame EXCEPT ![t].pc = "done"]
                     /\ ret' = [ret EXCEPT ![t] =
                           Some(ParsedSQL(f.ast, Or(f.fallback_dialect, Some(f.dialect))[1],
                                          _extract_identifiers(f.ast), TRUE, None))]
           ELSE /\ frame' = [frame EXCEPT ![t].pc = "done"]
                /\ ret' = [ret EXCEPT ![t] =
                      Some(FailedParsedSQL(f.dialect, HandlerDiagnostic(f)))]
    /\ UNCHANGED <<default_dialect, DIALECT_CONFIGS, lib>>

\* no registry call was logged and no GameEngine was constructed
GameIdle ==
    /\ calls = << >>
    /\ state = None
    /\ engine = None
    /\ evaluator = None
    /\ adapter = None
    /\ storyteller = None

ExtractIdle ==
    /\ ast = EmptyTree
    /\ stage = "build"
    /\ parsed = None
    /\ schema = [t \in {} |-> {}]
    /\ report = None

InitParse ==
    /\ default_dialect = "sqlite"
    /\ DIALECT_CONFIGS = InitialConfigs
    /\ lib \in Libs
    /\ frame = [t \in Threads |-> IdleFrame]
    /\ ret = [t \in Threads |-> None]
    /\ ExtractIdle
    /\ GameIdle

NextParse ==
    \/ \E t \in Threads : \E arg \in DialectArgs : Call(t, arg) /\ UNCHANGED <<extractVars, calls, gameVars>>
    \/ \E t \in Threads : Primary(t) /\ UNCHANGED <<extractVars, calls, gameVars>>
    \/ \E t \in Threads : Fallback(t) /\ UNCHANGED <<extractVars, calls, gameVars>>
    \/ \E t \in Threads : Lenient(t) /\ UNCHANGED <<extractVars, calls, gameVars>>
    \/ \E t \in Threads : Handler(t) /\ UNCHANGED <<extractVars, calls, gameVars>>

SpecParse == InitParse /\ [][NextParse]_vars

-----------------------------------------------------------------------------
(* The hallucination detector: validate(identifier_set, schema_snapshot).  *)
(* A schema snapshot maps each table name to the set of its column names.  *)

OrdersSchema ==
    [t \in {"orders", "customers"} |->
        IF t = "orders" THEN {"id", "amount"} ELSE {"id", "name"}]

ShipmentsSchema ==
    [t \in {"orders", "shipments"} |->
        IF t = "orders" THEN {"id", "amount"} ELSE {"id"}]

Schemas == {OrdersSchema, ShipmentsSchema}

Qualifiers == {"main", "cat.main"}
BaseNames == {"orders", "Orders", "customers", "shipments", "recent", "Recent", "x"}
ColumnNames == {"id", "rid", "total", "amount", "bogus"}
Markers == {"(cte)", "(subquery)"}

\* a table name without its catalog/schema qualifier
Unqualified(s) ==
    IF \E q \in Qualifiers, n \in BaseNames : s = q \o "." \o n
    THEN CHOOSE n \in BaseNames : \E q \in Qualifiers : s = q \o "." \o n
    ELSE s

\* the table of the snapshot a name matches, case-insensitively
RealTables(sch, s) == { t \in DOMAIN sch : Lower(t) = Lower(Unqualified(s)) }

IsMarked(ids, s) == s \in DOMAIN ids.aliases /\ ids.aliases[s] \in Markers

IsResolvedAliasValue(ids, sch, s) ==
    \E k \in DOMAIN ids.aliases : ids.aliases[k] = s /\ RealTables(sch, s) # {}

ValidTable(ids, sch, s) ==
    \/ RealTables(sch, s) # {}
    \/ IsMarked(ids, s)
    \/ IsResolvedAliasValue(ids, sch, s)

\* [prefix, name] of a column reference
SplitColumn(s) ==
    IF \E q \in BaseNames, n \in ColumnNames : s = q \o "." \o n
    THEN CHOOSE pr \in [prefix : BaseNames, name : ColumnNames] :
            s = pr.prefix \o "." \o pr.name
    ELSE [prefix |-> "", name |-> s]

RealColumns(sch, s) == UNION { sch[t] : t \in RealTables(sch, s) }

Exported(ids, s) ==
    IF Lower(s) \in DOMAIN ids.cte_columns THEN ids.cte_columns[Lower(s)] ELSE {}

\* the columns visible through a table/alias prefix
ScopeOf(ids, sch, prefix) ==
    IF prefix \in DOMAIN ids.aliases
    THEN LET v == ids.aliases[prefix]
         IN  IF v \in Markers THEN Exported(ids, prefix)
             ELSE IF RealTables(sch, v) # {} THEN RealColumns(sch, v)
             ELSE IF IsMarked(ids, v) THEN Exported(ids, v)
             ELSE {}
    ELSE RealColumns(sch, prefix)

\* the builtin-function vocabulary of the active dialect (lower-cased)
BuiltinNames == {"count", "sum", "current_timestamp"}

ValidColumn(ids, sch, s) ==
    LET c == SplitColumn(s)
        n == Lower(c.name)
    IN  \/ c.prefix # "" /\ n \in ScopeOf(ids, sch, c.prefix)
        \/ c.prefix = "" /\
             n \in (UNION { RealColumns(sch, ids.tables[i]) : i \in DOMAIN ids.tables })
                   \cup ids.select_aliases
                   \cup (UNION { ids.cte_columns[k] : k \in DOMAIN ids.cte_columns })
        \/ n \in BuiltinNames

RECURSIVE Filter(_, _, _, _)
Filter(seq, ids, sch, tablesp) ==
    IF seq = << >> THEN << >>
    ELSE LET ok == IF tablesp THEN ValidTable(ids, sch, Head(seq))
                   ELSE ValidColumn(ids, sch, Head(seq))
         IN  (IF ok THEN << >> ELSE << Head(seq) >>)
                \o Filter(Tail(seq), ids, sch, tablesp)

\* an unqualified name matching columns of more than one referenced table
Ambiguous(ids, sch, s) ==
    /\ SplitColumn(s).prefix = ""
    /\ Cardinality({ i \in DOMAIN ids.tables :
                       Lower(s) \in RealColumns(sch, ids.tables[i]) }) >= 2

\* a variant that opens each kind of finding with a summary line
MessagesWithSummary(kind, names) ==
    << kind \o " findings" >> \o [i \in DOMAIN names |-> kind \o " " \o names[i]]

\* one message per finding, naming the offending identifier
Messages(kind, names) == [i \in DOMAIN names |-> kind \o " " \o names[i]]

validate(ids, sch) ==
    LET phantom_tables == Filter(ids.tables, ids, sch, TRUE)
        phantom_columns == Filter(ids.columns, ids, sch, FALSE)
    IN  [phantom_tables |-> phantom_tables,
         phantom_columns |-> phantom_columns,
         warnings |-> Keep(ids.columns,
                           { s \in Range(ids.columns) : Ambiguous(ids, sch, s) }),
         errors |-> Messages("phantom table", phantom_tables)
                      \o Messages("phantom column", phantom_columns)]

-----------------------------------------------------------------------------
(* The pipeline parse -> extract -> validate on one statement.  The tree   *)
(* sqlglot returns for the statement is built node by node, then parse     *)
(* wraps it with its identifiers, then the detector validates them.        *)

CteQueries ==
    { QuerySelect(<< ExprAlias("rid", "id") >>),
      QuerySelect(<< ExprStar >>),
      QuerySelect(<< ExprLiteral("1"), ExprFunc("Count") >>),
      QueryUnion(<< ExprColumn("id") >>, << ExprColumn("amount") >>) }

CteChoices ==
    { CteNode(n, q) : n \in {"recent", "Recent"}, q \in CteQueries }

SubqueryChoices ==
    { SubqueryNode("x", QuerySelect(<< ExprAlias("total", "") >>)),
      SubqueryNode("recent", QuerySelect(<< ExprAlias("total", "") >>)),
      SubqueryNode("x", QueryUnion(<< ExprColumn("id") >>, << ExprColumn("amount") >>)) }

TableChoices ==
    { TableNode("", "", "orders", ""),
      TableNode("", "", "Orders", ""),
      TableNode("", "main", "orders", ""),
      TableNode("cat", "main", "shipments", ""),
      TableNode("", "", "shipments", ""),
      TableNode("", "", "recent", ""),
      TableNode("", "", "orders", "recent"),
      TableNode("", "", "customers", "x") }

ColumnChoices ==
    { ColumnNode("", "rid"), ColumnNode("recent", "rid"), ColumnNode("x", "total"),
      ColumnNode("", "id"), ColumnNode("", "bogus") }

\* the function calls a tree can hold; Sum stands for a node whose
\* sql_name() raises
FuncChoices ==
    { [cls |-> "Count", sql_name |-> Some("COUNT")],
      [cls |-> "Sum", sql_name |-> None] }

\* the Func nodes among the expressions of a projection list
RECURSIVE FuncsOf(_)
FuncsOf(expressions) ==
    IF expressions = << >> THEN << >>
    ELSE (IF Head(expressions).cls \in {"Alias", "Column", "Star", "Literal"}
          THEN << >>
          ELSE << [cls |-> Head(expressions).cls,
                   sql_name |-> Some(Upper(Head(expressions).cls))] >>)
            \o FuncsOf(Tail(expressions))

\* the projection lists of the Select nodes of a defining query
SelectsOf(q) == IF q.cls = "Select" THEN << q.expressions >> ELSE q.inner

NodeCount(tree) ==
    Len(tree.ctes) + Len(tree.tables) + Len(tree.subqueries) + Len(tree.columns)
        + Len(tree.funcs)

AddCte(cte) ==
    /\ stage = "build"
    /\ NodeCount(ast) < MaxNodes
    /\ ast' = [ast EXCEPT !.ctes = Append(@, cte),
                          !.selects = @ \o SelectsOf(cte.this[1]),
                          !.funcs = @ \o FuncsOf(cte.this[1].expressions)]
    /\ UNCHANGED <<stage, parsed, schema, report>>

AddTable(table) ==
    /\ stage = "build"
    /\ NodeCount(ast) < MaxNodes
    /\ ast' = [ast EXCEPT !.tables = Append(@, table)]
    /\ UNCHANGED <<stage, parsed, schema, report>>

AddSubquery(subquery) ==
    /\ stage = "build"
    /\ NodeCount(ast) < MaxNodes
    /\ ast' = [ast EXCEPT !.subqueries = Append(@, subquery),
                          !.selects = @ \o SelectsOf(subquery.this[1])]
    /\ UNCHANGED <<stage, parsed, schema, report>>

AddColumn(col) ==
    /\ stage = "build"
    /\ NodeCount(ast) < MaxNodes
    /\ ast' = [ast EXCEPT !.columns = Append(@, col)]
    /\ UNCHANGED <<stage, parsed, schema, report>>

AddFunc(func) ==
    /\ stage = "build"
    /\ NodeCount(ast) < MaxNodes
    /\ ast' = [ast EXCEPT !.funcs = Append(@, func)]
    /\ UNCHANGED <<stage, parsed, schema, report>>

\* lines 64-73: the tree parsed under the requested dialect, with its identifiers
ParseTree ==
    /\ stage = "build"
    /\ parsed' = Some(ParsedSQL(Some(ast), "sqlite", _extract_identifiers(Some(ast)),
                                TRUE, None))
    /\ stage' = "parsed"
    /\ UNCHANGED <<ast, schema, report>>

\* evaluate, line 64: report = self.detector.detect(sql, self.schema)
Detect ==
    /\ stage = "parsed"
    /\ report' = Some(validate(parsed[1].identifiers, schema))
    /\ stage' = "validated"
    /\ UNCHANGED <<ast, parsed, schema>>

ParseIdle ==
    /\ default_dialect = "sqlite"
    /\ DIALECT_CONFIGS = InitialConfigs
    /\ lib = [parses |-> KnownReads, errtype |-> "ParseError",
              lenient |-> TRUE, walk_raises |-> FALSE]
    /\ frame = [t \in Threads |-> IdleFrame]
    /\ ret = [t \in Threads |-> None]

InitExtract ==
    /\ ParseIdle
    /\ ast = EmptyTree
    /\ stage = "build"
    /\ parsed = None
    /\ schema \in Schemas
    /\ report = None
    /\ GameIdle

NextExtract ==
    \/ \E cte \in CteChoices : AddCte(cte) /\ UNCHANGED <<parseVars, calls, gameVars>>
    \/ \E table \in TableChoices : AddTable(table) /\ UNCHANGED <<parseVars, calls, gameVars>>
    \/ \E subquery \in SubqueryChoices : AddSubquery(subquery) /\ UNCHANGED <<parseVars, calls, gameVars>>
    \/ \E col \in ColumnChoices : AddColumn(col) /\ UNCHANGED <<parseVars, calls, gameVars>>
    \/ \E func \in FuncChoices : AddFunc(func) /\ UNCHANGED <<parseVars, calls, gameVars>>
    \/ ParseTree /\ UNCHANGED <<parseVars, calls, gameVars>>
    \/ Detect /\ UNCHANGED <<parseVars, calls, gameVars>>

SpecExtract == InitExtract /\ [][NextExtract]_vars

-----------------------------------------------------------------------------
(* The registry under a sequence of lookups *)

\* the names callers ask the registry about
RegistryNames == {"sqlite", "SQLite", "duckdb", "klingon", ""}

\* the ValueError of line 79
UnsupportedDialect(dialect) == "Unsupported dialect: " \o dialect

\* a call of get_dialect_config(name): the descriptor or the error raised
Describe(name) ==
    /\ Len(calls) < MaxCalls
    /\ LET config == get_dialect_config(DIALECT_CONFIGS, name)
       IN  calls' = Append(calls,
                [op |-> "get_dialect_config", arg |-> name, config |-> config,
                 names |-> {},
                 raised |-> IF config = None THEN Some(UnsupportedDialect(name))
                            ELSE None])
    /\ UNCHANGED <<parseVars, extractVars, gameVars>>

\* a call of get_supported_dialects()
ListSupported ==
    /\ Len(calls) < MaxCalls
    /\ calls' = Append(calls,
            [op |-> "get_supported_dialects", arg |-> "", config |-> None,
             names |-> get_supported_dialects(DIALECT_CONFIGS), raised |-> None])
    /\ UNCHANGED <<parseVars, extractVars, gameVars>>

InitRegistry ==
    /\ ParseIdle
    /\ ExtractIdle
    /\ GameIdle

NextRegistry ==
    \/ \E name \in RegistryNames : Describe(name)
    \/ ListSupported

SpecRegistry == InitRegistry /\ [][NextRegistry]_vars

-----------------------------------------------------------------------------
(* The game: database, clues and the statements a player types *)

\* get_all_clues(): the clue ids in dict order
ClueIds ==
    << "crime_scene", "guest_list", "criminal_record", "last_call",
       "suspicious_purchase", "timeline_gap", "poison_evidence", "alibi_check" >>

\* Clue.points
Points(clue_id) ==
    CASE clue_id \in {"crime_scene", "guest_list", "criminal_record"} -> 10
      [] clue_id \in {"last_call", "poison_evidence"} -> 15
      [] OTHER -> 20

\* the snapshot of the database built from DDL_STATEMENTS
GameSchema ==
    [t \in {"persons", "locations", "events", "evidence", "phone_records",
            "financial_records"} |->
        CASE t = "persons" ->
               {"person_id", "name", "occupation", "relationship_to_victim",
                "has_criminal_record"}
          [] t = "locations" -> {"location_id", "name", "type", "address"}
          [] t = "events" ->
               {"event_id", "person_id", "location_id", "event_time", "description"}
          [] t = "evidence" ->
               {"evidence_id", "location_id", "type", "description", "found_at"}
          [] t = "phone_records" ->
               {"record_id", "caller_id", "receiver_id", "call_time",
                "duration_minutes", "call_type"}
          [] OTHER ->
               {"transaction_id", "person_id", "amount", "transaction_type",
                "description", "transaction_date"}]

\* the number of rows SEED_STATEMENTS puts in each table
SeededDb ==
    [t \in DOMAIN GameSchema |->
        CASE t = "events" -> 24 [] t = "phone_records" -> 8
          [] t = "financial_records" -> 10 [] OTHER -> 6]

\* The statements a player types.  first is the first word of the text,
\* keywords the substrings _detect_concepts looks for, tree what sqlglot
\* parses the text to (None: no strategy parses it), sqlite what SQLite
\* does with the text: it returns the rows of a table ("select"), deletes
\* them ("delete") or raises ("error"); reveals are the clues whose
\* detection_function accepts the rows returned from the seeded table.
Queries ==
    { [text |-> "SELECT rowid, name, has_criminal_record FROM persons",
       first |-> "SELECT", keywords |-> {"SELECT"},
       tree |-> Some([EmptyTree EXCEPT
                   !.selects = << << ExprColumn("rowid"), ExprColumn("name"),
                                     ExprColumn("has_criminal_record") >> >>,
                   !.tables = << TableNode("", "", "persons", "") >>,
                   !.columns = << ColumnNode("", "rowid"), ColumnNode("", "name"),
                                  ColumnNode("", "has_criminal_record") >>]),
       sqlite |-> "select", table |-> "persons",
       reveals |-> {"guest_list", "criminal_record", "alibi_check"}],
      [text |-> "with gone as (select 1) delete from persons",
       first |-> "with", keywords |-> {"WITH", "SELECT"},
       tree |-> Some([EmptyTree EXCEPT
                   !.ctes = << CteNode("gone", QuerySelect(<< ExprLiteral("1") >>)) >>,
                   !.selects = << << ExprLiteral("1") >> >>,
                   !.tables = << TableNode("", "", "persons", "") >>]),
       sqlite |-> "delete", table |-> "persons", reveals |-> {}],
      [text |-> "DELETE FROM persons",
       first |-> "DELETE", keywords |-> {},
       tree |-> Some([EmptyTree EXCEPT
                   !.tables = << TableNode("", "", "persons", "") >>]),
       sqlite |-> "delete", table |-> "persons", reveals |-> {}],
      [text |-> "SELECT name FROM suspects, weapons",
       first |-> "SELECT", keywords |-> {"SELECT"},
       tree |-> Some([EmptyTree EXCEPT
                   !.selects = << << ExprColumn("name") >> >>,
                   !.tables = << TableNode("", "", "suspects", ""),
                                 TableNode("", "", "weapons", "") >>,
                   !.columns = << ColumnNode("", "name") >>]),
       sqlite |-> "error", table |-> "", reveals |-> {}],
      [text |-> "SELECT alibi FROM persons",
       first |-> "SELECT", keywords |-> {"SELECT"},
       tree |-> Some([EmptyTree EXCEPT
                   !.selects = << << ExprColumn("alibi") >> >>,
                   !.tables = << TableNode("", "", "persons", "") >>,
                   !.columns = << ColumnNode("", "alibi") >>]),
       sqlite |-> "error", table |-> "", reveals |-> {}],
      [text |-> "SELECT description FROM events, evidence",
       first |-> "SELECT", keywords |-> {"SELECT"},
       tree |-> Some([EmptyTree EXCEPT
                   !.selects = << << ExprColumn("description") >> >>,
                   !.tables = << TableNode("", "", "events", ""),
                                 TableNode("", "", "evidence", "") >>,
                   !.columns = << ColumnNode("", "description") >>]),
       sqlite |-> "error", table |-> "", reveals |-> {}],
      [text |-> "SELECT name FROM persons WHERE name = 'Sofia",
       first |-> "SELECT", keywords |-> {"SELECT", "WHERE"},
       tree |-> None,
       sqlite |-> "error", table |-> "", reveals |-> {}] }

\* the statement with a given text
QueryOf(sql) == CHOOSE q \in Queries : q.text = sql

\* the texts handed to SQLEvaluator.evaluate
Statements == {"", ";"} \cup { q.text : q \in Queries }

\* what the player types at the SQL> prompt during a game, as get_input
\* returns it
Inputs ==
    {"", "schema", "hint", "quit", "QUIT",
     "SELECT rowid, name, has_criminal_record FROM persons",
     "SELECT alibi FROM persons",
     "DELETE FROM persons"}

-----------------------------------------------------------------------------
(* SQLiteAdapter.execute, the detector and SQLEvaluator.evaluate *)

ExecutionResult(success, reveals, rows_returned, error) ==
    [success |-> success, reveals |-> reveals, rows_returned |-> rows_returned,
     error |-> error]

\* a variant of the error result that keeps rows fetched before the error
FailedExecutionWithRows(error) ==
    ExecutionResult(FALSE, {"guest_list"}, 6, Some(error))

\* lines 137-147: the result execute builds in its except clause
FailedExecution(error) == ExecutionResult(FALSE, {}, 0, Some(error))

\* SQLiteAdapter.execute: the ExecutionResult and the adapter afterwards;
\* last_sql is the text handed to cursor.execute.  A statement without a
\* result set is committed and reports cursor.rowcount, which sqlite3 leaves
\* at -1 for a statement that opens with WITH
execute(ad, sql) ==
    LET q == QueryOf(sql)
        passed == [ad EXCEPT !.last_sql = Some(sql)]
    IN  IF q.sqlite = "error"
        THEN [result |-> FailedExecution("sqlite3 error"), adapter |-> passed]
        ELSE IF q.sqlite = "select"
        THEN [result |-> ExecutionResult(TRUE,
                            IF ad.db[q.table] > 0 THEN q.reveals ELSE {},
                            ad.db[q.table], None),
              adapter |-> passed]
        ELSE [result |-> ExecutionResult(TRUE, {}, -1, None),
              adapter |-> [passed EXCEPT !.db[q.table] = 0]]

\* HallucinationDetector.detect(sql, schema): parse, extract, validate
detect(sql, sch) ==
    LET tree == QueryOf(sql).tree
        ids == IF tree # None THEN _extract_identifiers(tree) ELSE EmptyIdentifierSet
    IN  validate(ids, sch)

\* sql.strip().rstrip(";") on what get_input returns
StripQuery(sql) == IF sql = ";" THEN "" ELSE sql

\* a variant that reports a clue each time the rows reveal it
_check_clues_again(found_clues, reveals) ==
    Keep(ClueIds, reveals)

\* _check_clues: the clues, in dict order, that the rows reveal for the first time
_check_clues(found_clues, reveals) ==
    Keep(ClueIds, reveals \ found_clues)

\* the concepts _detect_concepts tests for, in its order
Concepts ==
    << "JOIN", "WHERE", "GROUP BY", "ORDER BY", "HAVING", "Subquery", "CTE",
       "Window Function", "Aggregate", "LIKE" >>

\* the substrings of sql.upper() that make _detect_concepts report a concept
ConceptKeywords(concept) ==
    CASE concept = "Subquery" -> {"NOT IN", "NOT EXISTS", "SELECT SELECT"}
      [] concept = "CTE" -> {"WITH"}
      [] concept = "Window Function" -> {"ROW_NUMBER", "RANK", "LAG", "LEAD", "OVER("}
      [] concept = "Aggregate" -> {"COUNT", "SUM", "AVG"}
      [] OTHER -> {concept}

_detect_concepts(sql) ==
    Keep(Concepts, { c \in Range(Concepts) :
                       ConceptKeywords(c) \cap QueryOf(sql).keywords # {} })

EvaluationResult(is_valid, executed, rows_returned, validation_errors, new_clues_found, sql_concepts, error) ==
    [is_valid |-> is_valid, executed |-> executed, rows_returned |-> rows_returned,
     validation_errors |-> validation_errors, validation_warnings |-> << >>,
     new_clues_found |-> new_clues_found, sql_concepts |-> sql_concepts,
     error |-> error]

\* a variant of the statement filter that lets every first word through
AnyFirstWord(sql) == TRUE

\* lines 53-54: first_word in ("SELECT", "WITH")
AllowedFirstWord(sql) == Upper(QueryOf(sql).first) \in {"SELECT", "WITH"}

\* a variant of the table check that never blocks
NoPhantomTables(rpt) == FALSE

\* line 65: if report.phantom_tables
HasPhantomTables(rpt) == rpt.phantom_tables # << >>

\* SQLEvaluator.evaluate: the EvaluationResult, the locals report and
\* exec_result (None when the line was not reached), and the evaluator and
\* the adapter afterwards
evaluate(ev, ad, input) ==
    LET sql == StripQuery(input)
        Rejected(rpt, errors) ==
            [result |-> EvaluationResult(FALSE, FALSE, 0, errors, << >>, << >>, None),
             report |-> rpt, exec_result |-> None,
             evaluator |-> ev, adapter |-> ad]
    IN  IF sql = "" THEN Rejected(None, << "Empty query" >>)
        ELSE IF ~AllowedFirstWord(sql)
        THEN Rejected(None, << "Only SELECT queries are allowed (got "
                                 \o Upper(QueryOf(sql).first) \o ")" >>)
        ELSE LET rpt == detect(sql, ev.schema)
             IN  IF HasPhantomTables(rpt)
                 THEN Rejected(Some(rpt),
                               [i \in DOMAIN rpt.phantom_tables |->
                                   "Table '" \o rpt.phantom_tables[i]
                                       \o "' does not exist"])
                 ELSE LET ex == execute(ad, sql)
                          new_clues == _check_clues(ev.found_clues, ex.result.reveals)
                      IN  IF ~ex.result.success
                          THEN [result |-> EvaluationResult(TRUE, FALSE, 0, << >>, << >>,
                                                            << >>, ex.result.error),
                                report |-> Some(rpt),
                                exec_result |-> Some(ex.result),
                                evaluator |-> ev, adapter |-> ex.adapter]
                          ELSE [result |-> EvaluationResult(TRUE, TRUE,
                                              ex.result.rows_returned, << >>,
                                              new_clues, _detect_concepts(sql), None),
                                report |-> Some(rpt),
                                exec_result |-> Some(ex.result),
                                evaluator |-> [ev EXCEPT !.found_clues =
                                                  @ \cup Range(new_clues)],
                                adapter |-> ex.adapter]

\* the evaluator and the adapter as GameEngine.__init__ builds them:
\* database seeded, snapshot taken, no clue found
InitEvaluate ==
    /\ ParseIdle
    /\ ExtractIdle
    /\ calls = << >>
    /\ state = None
    /\ engine = None
    /\ storyteller = None
    /\ evaluator = [schema |-> GameSchema, found_clues |-> {}]
    /\ adapter = [conn |-> TRUE, db |-> SeededDb, last_sql |-> None]

\* a call of evaluator.evaluate(sql); calls keeps what each call returned
\* and found_clues as the call left it
Evaluate(sql) ==
    /\ Len(calls) < MaxCalls
    /\ \E ev \in { evaluate(evaluator, adapter, sql) } :
           /\ calls' = Append(calls,
                    [op |-> "evaluate", arg |-> sql, result |-> ev.result,
                     report |-> ev.report, exec_result |-> ev.exec_result,
                     found_clues |-> ev.evaluator.found_clues])
           /\ evaluator' = ev.evaluator
           /\ adapter' = ev.adapter
    /\ UNCHANGED <<parseVars, extractVars, state, engine, storyteller>>

NextEvaluate == \E sql \in Statements : Evaluate(sql)

SpecEvaluate == InitEvaluate /\ [][NextEvaluate]_vars

-----------------------------------------------------------------------------
(* GameEngine.run, one step per prompt *)

\* a variant whose closing phase lasts through the tenth turn
current_phase_late(st) ==
    IF st.turn_number <= 2 THEN "scene_setting"
    ELSE IF st.turn_number <= 6 THEN "investigation"
    ELSE IF st.turn_number <= 10 THEN "closing_in"
    ELSE "resolution"

\* GameState.current_phase
current_phase(st) ==
    IF st.turn_number <= 2 THEN "scene_setting"
    ELSE IF st.turn_number <= 6 THEN "investigation"
    ELSE IF st.turn_number <= 9 THEN "closing_in"
    ELSE "resolution"

\* GameState()
GameState ==
    [turn_number |-> 0, max_turns |-> 10, clues_found |-> << >>,
     query_history |-> << >>, total_score |-> 0, hints_used |-> 0,
     accusation |-> None, game_over |-> FALSE, sql_concepts_used |-> << >>]

RECURSIVE SumPoints(_)
SumPoints(clue_ids) ==
    IF clue_ids = << >> THEN 0 ELSE Points(Head(clue_ids)) + SumPoints(Tail(clue_ids))

\* GameState.record_query
record_query(st, sql, clues, concepts) ==
    [st EXCEPT
        !.query_history = Append(@, [turn |-> st.turn_number, sql |-> sql,
                                     clues_found |-> clues]),
        !.sql_concepts_used =
            @ \o Keep(concepts, Range(concepts) \ Range(st.sql_concepts_used))]

\* narrate_intro, lines 32-51: conversation_history after the call; the
\* messages are kept by their role
narrate_intro(history, api_ok) ==
    IF api_ok THEN Append(history, "assistant") ELSE history

\* conversation_history[-16:]
LastMessages(history) ==
    IF Len(history) <= 16 THEN history
    ELSE SubSeq(history, Len(history) - 15, Len(history))

\* narrate_discovery, lines 83-96: conversation_history after the call; the
\* API error is raised after the user message was added
narrate_discovery(history, api_ok) ==
    LET asked == Append(history, "user")
        answered == Append(asked, "assistant")
    IN  IF ~api_ok THEN asked
        ELSE IF Len(answered) > 20 THEN LastMessages(answered) ELSE answered

\* a history of n messages in which the roles alternate from the given one
Alternating(first, n) ==
    [i \in 1..n |-> IF (i % 2 = 1) = (first = "user") THEN "user" ELSE "assistant"]

\* the histories a storyteller holds after answered narrations: up to ten
\* rounds of question and answer, behind the intro's message or not
Histories ==
    { Alternating("user", 2 * k) : k \in 0..10 }
        \cup { Alternating("assistant", 2 * k + 1) : k \in 0..9 }

InitStory ==
    /\ ParseIdle
    /\ ExtractIdle
    /\ calls = << >>
    /\ state = None
    /\ engine = None
    /\ evaluator = None
    /\ adapter = None
    /\ \E history \in Histories :
          storyteller = [conversation_history |-> history]

\* a call of narrate_intro or narrate_discovery; calls keeps the history
\* each call found and left
Narrate(op, api_ok) ==
    /\ Len(calls) < MaxCalls
    /\ \E history \in { IF op = "narrate_intro"
                        THEN narrate_intro(storyteller.conversation_history, api_ok)
                        ELSE narrate_discovery(storyteller.conversation_history,
                                               api_ok) } :
          /\ storyteller' = [storyteller EXCEPT !.conversation_history = history]
          /\ calls' = Append(calls,
                [op |-> op, raised |-> ~api_ok,
                 before |-> storyteller.conversation_history,
                 history |-> history])
    /\ UNCHANGED <<parseVars, extractVars, state, engine, evaluator, adapter>>

NextStory ==
    \/ \E api_ok \in BOOLEAN : Narrate("narrate_intro", api_ok)
    \/ \E api_ok \in BOOLEAN : Narrate("narrate_discovery", api_ok)

SpecStory == InitStory /\ [][NextStory]_vars

\* what the display shows for a storyteller call: its text, or the fallback
\* of the except clause
Shown(api_ok) == IF api_ok THEN "narrative" ELSE "fallback"

\* the engine as __init__ leaves it: database seeded, snapshot taken
InitGame ==
    /\ ParseIdle
    /\ ExtractIdle
    /\ calls = << >>
    /\ state = GameState
    /\ engine = [pc |-> "start", _turns_without_clues |-> 0,
                 user_input |-> None, eval_result |-> None, shown |-> None,
                 final_scores_shown |-> 0]
    /\ evaluator = [schema |-> GameSchema, found_clues |-> {}]
    /\ adapter = [conn |-> TRUE, db |-> SeededDb, last_sql |-> None]
    /\ storyteller = [conversation_history |-> << >>]

\* the objects of a game
Game ==
    [state |-> state, engine |-> engine, evaluator |-> evaluator,
     adapter |-> adapter, storyteller |-> storyteller]

\* a variant in which an API error leaves run
AfterIntroUncaught(api_ok) == IF api_ok THEN "loop" ELSE "aborted"

\* run, lines 49-54: the try/except around narrate_intro falls into the loop
AfterIntro(api_ok) == "loop"

\* run, lines 46-54: the opening narration, with or without the API
intro(g, api_ok) ==
    [g EXCEPT !.engine.pc = AfterIntro(api_ok),
              !.engine.shown = Some(Shown(api_ok)),
              !.storyteller.conversation_history = narrate_intro(@, api_ok)]

Intro(api_ok) ==
    /\ engine.pc = "start"
    /\ \E g \in { intro(Game, api_ok) } :
          /\ engine' = g.engine
          /\ storyteller' = g.storyteller
    /\ UNCHANGED <<state, evaluator, adapter>>

\* run, lines 56-63: the head of the main loop
LoopTop ==
    /\ engine.pc = "loop"
    /\ IF state.game_over
       THEN /\ engine' = [engine EXCEPT !.pc = "final"]
            /\ UNCHANGED state
       ELSE LET st == [state EXCEPT !.turn_number = @ + 1]
            IN  /\ state' = st
                /\ engine' = [engine EXCEPT !.pc =
                                 IF current_phase(st) = "resolution"
                                 THEN "resolution" ELSE "turn"]
    /\ UNCHANGED <<evaluator, adapter, storyteller>>

\* a variant of the prompt loop in which a failed query ends the turn
ConsumesTurn(eval_result) == eval_result.is_valid

\* lines 96-102: the turn goes on to record the query
ConsumesTurnWhenExecuted(eval_result) == eval_result.is_valid /\ eval_result.executed

\* the input is answered by the prompt loop itself, lines 78-92
IsCommand(user_input) ==
    user_input = "" \/ Lower(user_input) \in {"quit", "schema", "hint"}

\* SQLEvaluator.get_hint: a hint exists while a clue is undiscovered
get_hint(found_clues) == Range(ClueIds) \ Range(found_clues) # {}

\* _handle_hint, lines 156-173
_handle_hint(g, api_ok) ==
    [g EXCEPT !.state.hints_used = @ + 1,
              !.engine.shown =
                  IF get_hint(g.state.clues_found) THEN Some(Shown(api_ok))
                  ELSE Some("all clues found")]

\* _handle_turn, lines 75-154: one pass of the prompt loop on the objects g
\* of the game.  ev is what evaluate returned for user_input (None for an
\* input the loop answers itself); engine.eval_result keeps the result with
\* evaluate's local exec_result
_handle_turn(g, user_input, ev, api_ok) ==
    LET prompted == [g EXCEPT !.engine.user_input = Some(user_input),
                              !.engine.eval_result = None,
                              !.engine.shown = None]
    IN  IF user_input = "" \/ Lower(user_input) = "schema" THEN prompted
        ELSE IF Lower(user_input) = "quit"
        THEN [prompted EXCEPT !.state.game_over = TRUE, !.engine.pc = "loop"]
        ELSE IF Lower(user_input) = "hint" THEN _handle_hint(prompted, api_ok)
        ELSE LET eval_result == ev[1].result
                 new == Keep(eval_result.new_clues_found,
                             Range(eval_result.new_clues_found)
                                 \ Range(g.state.clues_found))
                 evaluated ==
                     [prompted EXCEPT
                         !.evaluator = ev[1].evaluator,
                         !.adapter = ev[1].adapter,
                         !.engine.eval_result =
                             Some([result |-> ev[1].result,
                                   exec_result |-> ev[1].exec_result])]
             IN  IF ~ConsumesTurnWhenExecuted(eval_result) THEN evaluated
                 ELSE [evaluated EXCEPT
                         !.state = record_query(
                             [@ EXCEPT !.clues_found = @ \o new,
                                       !.total_score = @ + SumPoints(new)],
                             user_input, eval_result.new_clues_found,
                             eval_result.sql_concepts),
                         !.engine.pc = "loop",
                         !.engine._turns_without_clues =
                             IF new # << >> THEN 0 ELSE @ + 1,
                         !.engine.shown = Some(Shown(api_ok)),
                         !.storyteller.conversation_history =
                             narrate_discovery(@, api_ok)]

\* line 94: eval_result = self.evaluator.evaluate(user_input)
Evaluation(g, user_input) ==
    IF IsCommand(user_input) THEN None
    ELSE Some(evaluate(g.evaluator, g.adapter, user_input))

Turn(user_input, api_ok) ==
    /\ engine.pc = "turn"
    /\ Lower(user_input) = "hint" => state.hints_used < MaxHints
    /\ \E ev \in { Evaluation(Game, user_input) } :
       \E g \in { _handle_turn(Game, user_input, ev, api_ok) } :
          /\ state' = g.state
          /\ engine' = g.engine
          /\ evaluator' = g.evaluator
          /\ adapter' = g.adapter
          /\ storyteller' = g.storyteller

\* what the player answers at the resolution prompt
Accusations == {"quit", "Sofia Chen", "the wife", "the kitchen staff"}

\* word in text, for the lowered accusations
Contains(text, word) ==
    CASE word = "sofia" -> text = "sofia chen"
      [] word = "chen" -> text \in {"sofia chen", "the kitchen staff"}
      [] OTHER -> FALSE

\* "sofia" in accusation.lower() or "chen" in accusation.lower()
is_correct(accusation) ==
    Contains(Lower(accusation), "sofia") \/ Contains(Lower(accusation), "chen")

\* a variant that gives the bonus for every accusation
BonusAlways(correct) == 30

\* lines 192-193: the bonus of a correct accusation
Bonus(correct) == IF correct THEN 30 ELSE 0

\* _handle_resolution, then the break of line 61
Resolution(accusation) ==
    /\ engine.pc = "resolution"
    /\ engine' = [engine EXCEPT !.pc = "final", !.user_input = Some(accusation)]
    /\ IF Lower(accusation) = "quit"
       THEN state' = [state EXCEPT !.game_over = TRUE]
       ELSE state' = [state EXCEPT
                        !.accusation = Some(accusation),
                        !.game_over = TRUE,
                        !.total_score = @ + Bonus(is_correct(accusation))]
    /\ UNCHANGED <<evaluator, adapter, storyteller>>

\* run, line 65: show_final_score once the loop is left
ShowFinalScore ==
    /\ engine.pc = "final"
    /\ engine' = [engine EXCEPT !.pc = "cleanup", !.final_scores_shown = @ + 1]
    /\ UNCHANGED <<state, evaluator, adapter, storyteller>>

\* a variant of close that keeps the connection
close_nothing(ad) == ad

\* SQLiteAdapter.close
close(ad) == [ad EXCEPT !.conn = FALSE]

\* main, lines 45-50: engine.cleanup() in the finally clause
Cleanup ==
    /\ engine.pc = "cleanup"
    /\ engine' = [engine EXCEPT !.pc = "done"]
    /\ adapter' = close(adapter)
    /\ UNCHANGED <<state, evaluator, storyteller>>

NextGame ==
    \/ \E api_ok \in BOOLEAN : Intro(api_ok) /\ UNCHANGED <<parseVars, extractVars, calls>>
    \/ LoopTop /\ UNCHANGED <<parseVars, extractVars, calls>>
    \/ \E user_input \in Inputs, api_ok \in BOOLEAN :
          Turn(user_input, api_ok) /\ UNCHANGED <<parseVars, extractVars, calls>>
    \/ \E accusation \in Accusations :
          Resolution(accusation) /\ UNCHANGED <<parseVars, extractVars, calls>>
    \/ ShowFinalScore /\ UNCHANGED <<parseVars, extractVars, calls>>
    \/ Cleanup /\ UNCHANGED <<parseVars, extractVars, calls>>

SpecGame == InitGame /\ [][NextGame]_vars

\* the turn is left: the player typed "quit" (or the input ended) or a query
\* that executed
LeaveTurn ==
    \E user_input \in Inputs, api_ok \in BOOLEAN :
       /\ Turn(user_input, api_ok)
       /\ engine'.pc # "turn"
       /\ UNCHANGED <<parseVars, extractVars, calls>>

\* the game with a player who leaves every turn and answers the resolution
\* prompt, and an engine that runs on
SpecGameLive ==
    /\ SpecGame
    /\ WF_vars((\E api_ok \in BOOLEAN : Intro(api_ok))
                  /\ UNCHANGED <<parseVars, extractVars, calls>>)
    /\ WF_vars(LoopTop /\ UNCHANGED <<parseVars, extractVars, calls>>)
    /\ WF_vars(LeaveTurn)
    /\ WF_vars((\E accusation \in Accusations : Resolution(accusation))
                  /\ UNCHANGED <<parseVars, extractVars, calls>>)
    /\ WF_vars(ShowFinalScore /\ UNCHANGED <<parseVars, extractVars, calls>>)
    /\ WF_vars(Cleanup /\ UNCHANGED <<parseVars, extractVars, calls>>)

-----------------------------------------------------------------------------
(* Properties of parse *)

Finished(t) == frame[t].pc \in {"done", "raised"}
Returned(t) == frame[t].pc = "done" /\ ret[t] # None

\* the call of thread t ended with a tree found by an alternate of the chain
ViaAlternate(t) ==
    /\ Finished(t)
    /\ frame[t].ast # None
    /\ Len(frame[t].attempts) >= 2
    /\ frame[t].attempts[Len(frame[t].attempts)] # Some("lenient")

\* the alternate that parsed
Alternate(t) == frame[t].attempts[Len(frame[t].attempts)]

\* the primary attempt of thread t failed
PrimaryFailed(t) ==
    /\ frame[t].attempts # << >>
    /\ parse_one(lib, frame[t].attempts[1]).ast = None

\* C1: in every ParsedSQL that parse returns, ast is present iff parse_error
\* is absent, and is_valid is true exactly when ast is present.
C1_AstIffNoError ==
    \A t \in Threads :
        ret[t] # None =>
            /\ (ret[t][1].ast # None) <=> (ret[t][1].parse_error = None)
            /\ ret[t][1].is_valid <=> (ret[t][1].ast # None)

\* one call returned a tree found by the fallback chain, another returned a failure
C1_Witness ==
    \E t, u \in Threads :
        /\ Returned(t) /\ ViaAlternate(t) /\ ret[t][1].is_valid
        /\ Returned(u) /\ ret[u][1].ast = None /\ ret[u][1].parse_error # None

\* C2: parse always returns a ParsedSQL and never propagates an exception.
C2_NeverRaises ==
    \A t \in Threads : frame[t].pc # "raised"

\* C3: when the primary attempt fails and an alternate of the fallback chain
\* parses the statement, dialect_used is that alternate (the generic one
\* included), and it is the first of the chain that parses.
C3_DialectUsedIsAlternate ==
    \A t \in Threads :
        (Returned(t) /\ ViaAlternate(t)) =>
            /\ Some(ret[t][1].dialect) = Alternate(t)
            /\ \A i \in DOMAIN fallback_order :
                  fallback_order[i] = Alternate(t) =>
                      \A j \in 1..(i - 1) : fallback_order[j] \notin lib.parses

\* C4: whenever the primary attempt fails, parse tries the alternates in the
\* order sqlite, postgres, duckdb, bigquery, generic, each only after all
\* earlier attempts failed, and never attempts the dialect of the primary
\* attempt a second time.
C4_FallbackOrder ==
    \A t \in Threads :
        LET a == frame[t].attempts
        IN  /\ (Finished(t) /\ PrimaryFailed(t)) => Len(a) >= 2
            /\ \A i \in 2..Len(a) : a[i] # a[1]
            /\ \A i, j \in 2..Len(a) :
                  (i < j /\ a[j] # Some("lenient")) =>
                      /\ parse_one(lib, a[i]).ast = None
                      /\ \E m, n \in DOMAIN fallback_order :
                            m < n /\ fallback_order[m] = a[i] /\ fallback_order[n] = a[j]

\* C5: two calls with the same SQL text and the same dialect argument end the
\* same way (same success outcome, same dialect_used), whatever calls ran
\* before, between or concurrently; the parser and the registry are not written.
C5_Deterministic ==
    \A t, u \in Threads :
        (Finished(t) /\ Finished(u) /\ frame[t].arg = frame[u].arg) =>
            /\ frame[t].pc = frame[u].pc
            /\ ret[t] = ret[u]

\* two finished calls with the same argument, one of them run after another
\* call with a different argument had been made
C5_Witness ==
    \E t, u \in Threads :
        /\ t # u
        /\ Returned(t) /\ Returned(u)
        /\ frame[t].arg = None /\ frame[u].arg = None
        /\ ret[t][1].is_valid
        /\ Len(frame[t].attempts) >= 2

IsEmptyIdentifierSet(ids) ==
    /\ ids.tables = << >>
    /\ ids.columns = << >>
    /\ ids.functions = << >>
    /\ DOMAIN ids.aliases = {}
    /\ ids.select_aliases = {}
    /\ DOMAIN ids.cte_columns = {}

\* C6: a ParsedSQL without an AST carries an IdentifierSet whose six
\* collections are empty, and so does _extract_identifiers(None).
C6_NoAstNoIdentifiers ==
    /\ IsEmptyIdentifierSet(_extract_identifiers(None))
    /\ \A t \in Threads :
          (ret[t] # None /\ ret[t][1].ast = None) =>
              IsEmptyIdentifierSet(ret[t][1].identifiers)

\* a call failed after the whole chain and the lenient parse and returned
\* a ParsedSQL without a tree
C6_Witness ==
    \E t \in Threads :
        /\ Returned(t) /\ ret[t][1].ast = None
        /\ frame[t].attempts[Len(frame[t].attempts)] = Some("lenient")
        /\ IsEmptyIdentifierSet(ret[t][1].identifiers)
        /\ ~IsEmptyIdentifierSet(_extract_identifiers(Some(SampleTree)))

-----------------------------------------------------------------------------
(* Properties of extraction and validation *)

Extracted == stage \in {"parsed", "validated"}
Ids == parsed[1].identifiers


\* the aliases declared by the statement, by kind of node
CteAliases == { c.alias : c \in Range(ast.ctes) } \ {""}
SubqueryAliases == { q.alias : q \in Range(ast.subqueries) } \ {""}
TableAliases == { n.alias : n \in Range(ast.tables) } \ {""}

\* C7 as stated: every key of cte_columns is also a key of aliases, for CTE
\* and subquery names of any letter case.
C7_ExportedKeysAreAliases ==
    Extracted => DOMAIN Ids.cte_columns \subseteq DOMAIN Ids.aliases

\* C7 as amended: every key of cte_columns is the lower-cased form of a key
\* of aliases, and is itself a key of aliases when the CTE or subquery name
\* is written in lower case.
C7_ExportedKeysAreLoweredAliases ==
    Extracted =>
        /\ \A k \in DOMAIN Ids.cte_columns :
              \E a \in DOMAIN Ids.aliases : Lower(a) = k
        /\ (\A a \in CteAliases \cup SubqueryAliases : Lower(a) = a) =>
              DOMAIN Ids.cte_columns \subseteq DOMAIN Ids.aliases

\* a CTE named in mixed case exports columns
C7_Witness ==
    /\ Extracted
    /\ "Recent" \in DOMAIN Ids.aliases
    /\ "recent" \in DOMAIN Ids.cte_columns
    /\ "recent" \notin DOMAIN Ids.aliases

\* C8 as stated: every named CTE is a key of aliases with value "(cte)", every
\* aliased subquery a key with value "(subquery)", whatever table aliases the
\* statement declares, and a table alias maps to the table it renames.
C8_AliasMarkers ==
    Extracted =>
        /\ \A a \in CteAliases : a \in DOMAIN Ids.aliases /\ Ids.aliases[a] = "(cte)"
        /\ \A a \in SubqueryAliases :
              a \in DOMAIN Ids.aliases /\ Ids.aliases[a] = "(subquery)"
        /\ \A n \in Range(ast.tables) :
              n.alias # "" => (n.alias \in DOMAIN Ids.aliases
                               /\ Ids.aliases[n.alias] = n.name)

\* C8 as amended: every named CTE, aliased subquery and table alias is a key
\* of aliases; an aliased subquery always maps to "(subquery)"; a CTE maps to
\* "(cte)" unless a table alias or an aliased subquery has the same name; a
\* table alias maps to the table it renames unless an aliased subquery or a
\* later table has the same alias.
C8_AliasMarkersLastWriteWins ==
    Extracted =>
        /\ CteAliases \cup SubqueryAliases \cup TableAliases = DOMAIN Ids.aliases
        /\ \A a \in SubqueryAliases : Ids.aliases[a] = "(subquery)"
        /\ \A a \in CteAliases \ (SubqueryAliases \cup TableAliases) :
              Ids.aliases[a] = "(cte)"
        /\ \A i \in DOMAIN ast.tables :
              (/\ ast.tables[i].alias # ""
               /\ ast.tables[i].alias \notin SubqueryAliases
               /\ \A j \in DOMAIN ast.tables :
                     j > i => ast.tables[j].alias # ast.tables[i].alias)
              => Ids.aliases[ast.tables[i].alias] = ast.tables[i].name

\* a CTE, a table alias and an aliased subquery share one name
C8_Witness ==
    /\ Extracted
    /\ "recent" \in CteAliases \cap TableAliases \cap SubqueryAliases
    /\ Ids.aliases["recent"] = "(subquery)"

NoDuplicates(seq) == \A i, j \in DOMAIN seq : i # j => seq[i] # seq[j]

\* C9: the phantom tables reported are exactly the referenced table names that
\* match no table of the snapshot (case-insensitively, qualifier ignored), are
\* not keys of aliases marked "(cte)" or "(subquery)" and are not alias values
\* resolved to a real table; each is reported once.
C9_PhantomTablesExact ==
    stage = "validated" =>
        /\ NoDuplicates(report[1].phantom_tables)
        /\ Range(report[1].phantom_tables) =
              { s \in { TableName(n) : n \in Range(ast.tables) } :
                  /\ \A t \in DOMAIN schema : Lower(t) # Lower(Unqualified(s))
                  /\ ~(s \in DOMAIN Ids.aliases /\ Ids.aliases[s] \in {"(cte)", "(subquery)"})
                  /\ ~(\E k \in DOMAIN Ids.aliases :
                          Ids.aliases[k] = s
                          /\ \E t \in DOMAIN schema : Lower(t) = Lower(Unqualified(s))) }

\* shipments is referenced twice against {orders, customers} and reported once,
\* and a qualified, differently cased orders is not reported
C9_Witness ==
    /\ stage = "validated"
    /\ schema = OrdersSchema
    /\ Len(ast.tables) = 3
    /\ ast.tables[1].name = "shipments" /\ ast.tables[2].name = "shipments"
    /\ ast.tables[1].db = "" /\ ast.tables[2].db = ""
    /\ ast.tables[3].name = "Orders"
    /\ report[1].phantom_tables = << "shipments" >>

\* the column references of the statement that name a column exported by the
\* CTE or subquery node c, unqualified or qualified with its name
RefsTo(c, exported) ==
    { (IF col.table # "" THEN col.table \o "." \o col.name ELSE col.name) :
        col \in { x \in Range(ast.columns) :
                    Lower(x.name) \in exported /\ x.table \in {"", c.alias} } }

\* the CTE or subquery node c, exporting the given columns, is not flagged
NotFlagged(c, exported) ==
    /\ c.alias \notin Range(report[1].phantom_tables)
    /\ RefsTo(c, exported) \cap Range(report[1].phantom_columns) = {}

\* the statement references the CTE or subquery node c by its name
Referenced(c, exported) ==
    \/ \E n \in Range(ast.tables) : n.name = c.alias /\ n.db = "" /\ n.catalog = ""
    \/ RefsTo(c, exported) # {}

\* C10 as stated: for a statement that defines a CTE or an aliased subquery
\* and references it, neither its name is flagged as a phantom table nor a
\* column it exports as a phantom column.
C10_SyntheticNamesNotFlagged ==
    stage = "validated" =>
        /\ \A c \in Range(ast.ctes) :
              (c.alias # "" /\ Referenced(c, _extract_cte_columns(c)))
                  => NotFlagged(c, _extract_cte_columns(c))
        /\ \A q \in Range(ast.subqueries) :
              (q.alias # "" /\ Referenced(q, _extract_subquery_columns(q)))
                  => NotFlagged(q, _extract_subquery_columns(q))

\* the name of node c is declared once in the statement, up to letter case
DeclaredOnce(c) ==
    /\ \A n \in Range(ast.tables) : Lower(n.alias) # Lower(c.alias)
    /\ Cardinality({ i \in DOMAIN ast.ctes : Lower(ast.ctes[i].alias) = Lower(c.alias) })
         + Cardinality({ i \in DOMAIN ast.subqueries :
                           Lower(ast.subqueries[i].alias) = Lower(c.alias) }) = 1

\* C10 as amended: the same, provided no other CTE, aliased subquery or table
\* alias of the statement has the same name up to letter case.
C10_SyntheticNamesNotFlaggedDeclaredOnce ==
    stage = "validated" =>
        /\ \A c \in Range(ast.ctes) :
              (c.alias # "" /\ Referenced(c, _extract_cte_columns(c)) /\ DeclaredOnce(c))
                  => NotFlagged(c, _extract_cte_columns(c))
        /\ \A q \in Range(ast.subqueries) :
              (q.alias # "" /\ Referenced(q, _extract_subquery_columns(q))
                 /\ DeclaredOnce(q))
                  => NotFlagged(q, _extract_subquery_columns(q))

\* WITH recent AS (SELECT id AS rid ...) SELECT rid FROM recent, validated
\* against a snapshot without recent and rid: nothing about recent is flagged
C10_Witness ==
    /\ stage = "validated"
    /\ schema = OrdersSchema
    /\ ast.ctes = << CteNode("recent", QuerySelect(<< ExprAlias("rid", "id") >>)) >>
    /\ ast.tables = << TableNode("", "", "recent", "") >>
    /\ ast.columns = << ColumnNode("recent", "rid") >>
    /\ report[1].phantom_tables = << >>
    /\ report[1].phantom_columns = << >>

-----------------------------------------------------------------------------
(* Properties of the error-tolerant parse *)

\* the call of thread t made the error-tolerant attempt
LenientTried(t) == frame[t].lenient_read # << >>

\* C17: the lenient parse is attempted only after every alternate of the
\* fallback chain has failed, it is run under the originally requested
\* dialect, and when it yields an AST the result is valid with dialect_used
\* equal to the requested dialect.
C17_LenientUnderRequestedDialect ==
    \A t \in Threads :
        LenientTried(t) =>
            /\ \A i \in DOMAIN fallback_order :
                  parse_one(lib, fallback_order[i]).ast = None
            /\ frame[t].lenient_read[1] \in
                  {Some(frame[t].dialect), Some(frame[t].sqlglot_dialect)}
            /\ (Returned(t) /\ frame[t].ast # None) =>
                  /\ ret[t][1].is_valid
                  /\ ret[t][1].dialect = frame[t].dialect

\* C18: when the primary attempt, every alternate and the lenient parse all
\* fail, parse returns a ParsedSQL with no AST, is_valid false, the requested
\* dialect, and as parse_error the diagnostic of the primary attempt, not
\* that of a later attempt.
C18_FirstDiagnostic ==
    \A t \in Threads :
        (Finished(t) /\ LenientTried(t) /\ frame[t].ast = None) =>
            LET a == frame[t].attempts
                first == Str(parse_one(lib, a[1]).e[1])
            IN  /\ Returned(t)
                /\ ret[t][1].ast = None
                /\ ~ret[t][1].is_valid
                /\ ret[t][1].dialect = Or(frame[t].arg, Some(default_dialect))[1]
                /\ ret[t][1].parse_error = Some(first)
                /\ ret[t][1].parse_error # Some(Str(parse_one_lenient(lib).e[1]))
                /\ \A i \in 2..(Len(a) - 1) :
                      a[i] # a[1] =>
                          ret[t][1].parse_error # Some(Str(parse_one(lib, a[i]).e[1]))

\* a call asking for postgres went through the primary attempt, four
\* alternates and the lenient parse, and returned the failure
C18_Witness ==
    \E t \in Threads :
        /\ Returned(t) /\ LenientTried(t) /\ frame[t].ast = None
        /\ frame[t].arg = Some("postgres")
        /\ Len(frame[t].attempts) = 6
        /\ ret[t][1].parse_error = Some("ParseError@postgres")

-----------------------------------------------------------------------------
(* Properties of the exported column sets *)

\* the names a projection list exports when each expression gives its
\* explicit alias, else its column name if it is a plain column reference,
\* else nothing
AliasOrColumnNames(expressions) ==
    { Lower(IF x.alias # "" THEN x.alias ELSE x.name) :
        x \in { y \in Range(expressions) : y.alias # "" \/ y.cls = "Column" } }

\* C19: the exported column set of a CTE or subquery holds, for each
\* expression of its projection list, the explicit alias if there is one,
\* else the bare column name of a plain column reference, and nothing for a
\* wildcard, a bare literal or an unaliased computed expression.
C19_ExportedNamesPerExpression ==
    Extracted =>
        /\ \A c \in Range(ast.ctes) :
              (c.alias # "" /\ DeclaredOnce(c) /\ c.this[1].cls = "Select") =>
                  Exported(Ids, c.alias) = AliasOrColumnNames(c.this[1].expressions)
        /\ \A q \in Range(ast.subqueries) :
              (q.alias # "" /\ DeclaredOnce(q) /\ q.this[1].cls = "Select") =>
                  Exported(Ids, q.alias) = AliasOrColumnNames(q.this[1].expressions)

\* C20: an aliased subquery and a CTE with the same defining query get the
\* same exported column set, whatever the shape of the defining query.
C20_SubqueryExportsLikeCte ==
    Extracted =>
        \A c \in Range(ast.ctes), q \in Range(ast.subqueries) :
            (c.this = q.this /\ c.alias # "" /\ q.alias # ""
               /\ DeclaredOnce(c) /\ DeclaredOnce(q)) =>
                Exported(Ids, c.alias) = Exported(Ids, q.alias)

-----------------------------------------------------------------------------
(* Properties of the registry *)

\* C12: get_dialect_config(name) returns a descriptor exactly when name,
\* compared case-insensitively, is one of the names get_supported_dialects()
\* returns, and otherwise fails with the unsupported-dialect error (also for
\* a value of the Dialect enum without a registered description); neither
\* call changes the registry.
C12_DescribedIffSupported ==
    /\ DIALECT_CONFIGS = InitialConfigs
    /\ \A i \in DOMAIN calls :
          LET c == calls[i]
          IN  IF c.op = "get_dialect_config"
              THEN /\ (c.config # None) <=>
                        (Lower(c.arg) \in get_supported_dialects(InitialConfigs))
                   /\ (c.config # None) => c.config[1].name = Lower(c.arg)
                   /\ (c.config = None) <=> (c.raised = Some(UnsupportedDialect(c.arg)))
                   /\ (c.config # None) <=> (c.raised = None)
              ELSE /\ c.names = {"sqlite"}
                   /\ c.raised = None

\* the registry was asked about a supported name in another letter case,
\* about a Dialect value without a description, and for the supported names
C12_Witness ==
    /\ Len(calls) = 3
    /\ calls[1].arg = "duckdb" /\ calls[1].config = None
    /\ calls[2].op = "get_supported_dialects" /\ calls[2].names = {"sqlite"}
    /\ calls[3].arg = "SQLite" /\ calls[3].config = Some(SQLITE_CONFIG)

\* the names a walk appends, in the order of the walk
WalkedTables == Keep([i \in DOMAIN ast.tables |-> TableName(ast.tables[i])],
                     { TableName(n) : n \in Range(ast.tables) } \ {""})
WalkedColumns ==
    [i \in DOMAIN ast.columns |->
        IF ast.columns[i].table # ""
        THEN ast.columns[i].table \o "." \o ast.columns[i].name
        ELSE ast.columns[i].name]
WalkedFunctions == [i \in DOMAIN ast.funcs |-> _get_function_name(ast.funcs[i])]

\* the position at which a name first occurs in a walk
FirstIndex(walk, x) ==
    CHOOSE k \in DOMAIN walk : walk[k] = x /\ \A m \in 1..(k - 1) : walk[m] # x

\* out holds each name of the walk once, in the order of first occurrence
InFirstOccurrenceOrder(walk, out) ==
    /\ NoDuplicates(out)
    /\ Range(out) = Range(walk)
    /\ \A i, j \in DOMAIN out :
          i < j => FirstIndex(walk, out[i]) < FirstIndex(walk, out[j])

\* C21: in every IdentifierSet, tables, columns and functions hold no entry
\* twice and keep the order in which each name first occurred in the walk;
\* an IdentifierSet built from the deduplicated lists has the same lists.
C21_DedupKeepsFirstOccurrence ==
    Extracted =>
        /\ InFirstOccurrenceOrder(WalkedTables, Ids.tables)
        /\ InFirstOccurrenceOrder(WalkedColumns, Ids.columns)
        /\ InFirstOccurrenceOrder(WalkedFunctions, Ids.functions)
        /\ IdentifierSet(Ids.tables, Ids.columns, Ids.functions, Ids.aliases,
                         Ids.select_aliases, Ids.cte_columns) = Ids

\* a table named a second time after another table, and a function called
\* twice: each is listed once, at its first position
C21_Witness ==
    /\ Extracted
    /\ \/ /\ WalkedTables = << "shipments", "orders", "shipments" >>
          /\ Ids.tables = << "shipments", "orders" >>
       \/ /\ WalkedFunctions = << "COUNT", "SUM", "COUNT" >>
          /\ Ids.functions = << "COUNT", "SUM" >>

-----------------------------------------------------------------------------
(* Properties of SQLEvaluator.evaluate *)

\* the statement of a call reached line 64, where the detector is asked
Detected(c) == c.report # None

\* no strategy parsed the statement of a call
Unparsed(c) == c.arg \notin {"", ";"} /\ QueryOf(c.arg).tree = None

EmptyReport ==
    [phantom_tables |-> << >>, phantom_columns |-> << >>, warnings |-> << >>,
     errors |-> << >>]

\* C11: the detector answers every statement that reaches it with a report
\* (validation does not raise), and for a statement that no strategy parsed,
\* whose IdentifierSet is empty, the report is empty: no phantom table, no
\* phantom column, no warning, no error; the statement then goes on to the
\* adapter.
C11_EmptyReportWhenUnparsed ==
    /\ validate(EmptyIdentifierSet, GameSchema) = EmptyReport
    /\ \A i \in DOMAIN calls :
          LET c == calls[i]
          IN  /\ (StripQuery(c.arg) # "" /\ AllowedFirstWord(c.arg)) => Detected(c)
              /\ (Detected(c) /\ Unparsed(c)) =>
                    /\ c.report[1] = EmptyReport
                    /\ c.exec_result # None

\* an unparsed statement was evaluated after a statement whose report has
\* findings
C11_Witness ==
    /\ Len(calls) >= 2
    /\ Detected(calls[1]) /\ calls[1].report[1].errors # << >>
    /\ Detected(calls[2]) /\ Unparsed(calls[2])
    /\ calls[2].result.is_valid /\ ~calls[2].result.executed

\* SQLite changes rows when it runs the statement
Modifies(sql) == sql \notin {"", ";"} /\ QueryOf(sql).sqlite = "delete"

\* C13: over any sequence of evaluate calls no statement that modifies the
\* database reaches the adapter: the rows of the database and the schema
\* snapshot stay as they were at construction, and every such statement is
\* answered with is_valid=False and executed=False.
C13_OnlySelectReachesAdapter ==
    /\ adapter.db = SeededDb
    /\ evaluator.schema = GameSchema
    /\ \A i \in DOMAIN calls :
          Modifies(calls[i].arg) =>
             /\ ~calls[i].result.is_valid
             /\ ~calls[i].result.executed
             /\ calls[i].exec_result = None

\* found_clues before the i-th call
FoundBefore(i) == IF i = 1 THEN {} ELSE calls[i - 1].found_clues

\* C16: a statement for which the detector reports a phantom table is not
\* executed: is_valid=False, executed=False, one "does not exist" error per
\* phantom table, nothing handed to the adapter, found_clues unchanged; a
\* report without phantom tables, whatever its phantom columns and warnings,
\* lets the statement go to the adapter.
C16_BlockedExactlyOnPhantomTables ==
    \A i \in DOMAIN calls :
       LET c == calls[i]
       IN  Detected(c) =>
              IF c.report[1].phantom_tables # << >>
              THEN /\ ~c.result.is_valid
                   /\ ~c.result.executed
                   /\ c.exec_result = None
                   /\ c.result.validation_errors =
                         [k \in DOMAIN c.report[1].phantom_tables |->
                             "Table '" \o c.report[1].phantom_tables[k]
                                 \o "' does not exist"]
                   /\ c.result.new_clues_found = << >>
                   /\ c.found_clues = FoundBefore(i)
              ELSE /\ c.exec_result # None
                   /\ c.result.is_valid
                   /\ c.result.executed = c.exec_result[1].success

\* a statement with a phantom column was executed and revealed clues, then a
\* statement with two phantom tables was blocked, then a statement with a
\* warning went to the adapter
C16_Witness ==
    /\ Len(calls) = 3
    /\ \A i \in 1..3 : Detected(calls[i])
    /\ calls[1].report[1].phantom_columns # << >>
    /\ calls[1].result.executed /\ calls[1].found_clues # {}
    /\ Len(calls[2].report[1].phantom_tables) = 2
    /\ Len(calls[2].result.validation_errors) = 2
    /\ calls[2].found_clues = calls[1].found_clues
    /\ calls[3].report[1].warnings # << >>
    /\ calls[3].report[1].phantom_tables = << >>
    /\ calls[3].exec_result # None

\* the statement of a call was handed to the adapter
Executed(c) == c.exec_result # None

-----------------------------------------------------------------------------
(* Properties of the game *)

\* C14: in a game the player does not quit, 10 executed queries are recorded
\* in query_history before the game ends.
C14_TenQueriesBeforeTheEnd ==
    (engine.pc \in {"final", "cleanup", "done"} /\ state.accusation # None) =>
        Len(state.query_history) = 10

\* the fields of the game state a turn may consume
TurnFields(st) ==
    << st.turn_number, st.clues_found, st.total_score, st.query_history,
       st.sql_concepts_used >>

\* the last input at the prompt was a query that executed
ExecutedQuery(e) ==
    /\ e.eval_result # None
    /\ e.eval_result[1].result.is_valid
    /\ e.eval_result[1].result.executed
    /\ e.eval_result[1].exec_result # None
    /\ e.eval_result[1].exec_result[1].success

\* C15: at the prompt of a turn, an input that is empty, "schema", "hint", a
\* query rejected as invalid or a query whose execution fails leaves
\* turn_number, clues_found, total_score, query_history and
\* sql_concepts_used unchanged, changes hints_used only for "hint", and
\* prompts again; the turn ends only on an executed query or on "quit".
C15_PromptLoopKeepsTheTurn ==
    [][engine.pc = "turn" =>
          LET typed == engine'.user_input[1]
          IN  /\ engine'.user_input # None
              /\ (Lower(typed) # "quit" /\ ~ExecutedQuery(engine')) =>
                    /\ engine'.pc = "turn"
                    /\ TurnFields(state') = TurnFields(state)
                    /\ ~state'.game_over
                    /\ state'.hints_used =
                          IF Lower(typed) = "hint" THEN state.hints_used + 1
                          ELSE state.hints_used
              /\ (typed \in {"", "schema", "hint"}) => engine'.eval_result = None
              /\ engine'.pc # "turn" =>
                    /\ engine'.pc = "loop"
                    /\ \/ Lower(typed) = "quit" /\ state'.game_over
                                /\ TurnFields(state') = TurnFields(state)
                       \/ ExecutedQuery(engine') /\ ~state'.game_over
                                /\ Len(state'.query_history) =
                                      Len(state.query_history) + 1]_vars

\* in the third turn, after a hint, a query failed in SQLite and the player
\* is at the prompt again with two queries recorded
C15_Witness ==
    /\ engine.pc = "turn"
    /\ state.turn_number = 3
    /\ state.hints_used = 1
    /\ Len(state.query_history) = 2
    /\ engine.eval_result # None
    /\ engine.eval_result[1].result.is_valid
    /\ ~engine.eval_result[1].result.executed

\* what a storyteller failure must not change: the fields of the game state
\* and where the engine goes next
Outcome(g) ==
    << g.state.turn_number, g.state.clues_found, g.state.total_score,
       g.state.query_history, g.state.sql_concepts_used, g.state.hints_used,
       g.state.game_over, g.engine.pc, g.engine._turns_without_clues,
       g.evaluator, g.adapter >>

\* C23: a failure of the storyteller's API call in the intro, in a discovery
\* narration or in a hint does not end the game and does not change its
\* outcome: the fallback text is shown, and turn_number, clues_found,
\* total_score, query_history and the consumption of the turn are those of
\* the step in which the call succeeds.
C23_StorytellerFailureKeepsOutcome ==
    /\ engine.pc \in {"start", "loop", "turn", "resolution", "final", "cleanup", "done"}
    /\ engine.pc = "start" =>
          /\ Outcome(intro(Game, FALSE)) = Outcome(intro(Game, TRUE))
          /\ intro(Game, FALSE).engine.shown = Some("fallback")
    /\ engine.pc = "turn" =>
          \A user_input \in Inputs :
             \A ev \in { Evaluation(Game, user_input) } :
             \A ok \in { _handle_turn(Game, user_input, ev, TRUE) } :
             \A ko \in { _handle_turn(Game, user_input, ev, FALSE) } :
                /\ Outcome(ko) = Outcome(ok)
                /\ ko.engine.shown # ok.engine.shown =>
                      /\ ok.engine.shown = Some("narrative")
                      /\ ko.engine.shown = Some("fallback")
    /\ (engine.pc = "loop" /\ ~state.game_over) =>
          /\ Len(state.query_history) = state.turn_number
          /\ engine.shown \in {Some("narrative"), Some("fallback")}

\* the API failed in the intro, in a hint and in both discovery narrations
\* of a game that is entering its third turn with the clues of the first
C23_Witness ==
    /\ engine.pc = "loop"
    /\ engine.shown = Some("fallback")
    /\ storyteller.conversation_history = << "user", "user" >>
    /\ state.turn_number = 2
    /\ state.hints_used = 1
    /\ Len(state.query_history) = 2
    /\ Len(state.clues_found) = 3

\* a is the beginning of b
IsPrefix(a, b) == Len(a) <= Len(b) /\ SubSeq(b, 1, Len(a)) = a

\* C25: each clue is discovered at most once: a clue id is among the new
\* clues of at most one evaluated query, found_clues only grows, and
\* clues_found of the game state holds no clue twice, never shrinks, never
\* has more than 8 entries and holds exactly the ids of the evaluator's
\* found_clues.
C25_CluesDiscoveredOnce ==
    /\ [](/\ NoDuplicates(state.clues_found)
          /\ Len(state.clues_found) <= 8
          /\ Range(state.clues_found) = evaluator.found_clues
          /\ evaluator.found_clues \subseteq Range(ClueIds)
          /\ \A i \in DOMAIN state.query_history :
                /\ NoDuplicates(state.query_history[i].clues_found)
                /\ \A j \in DOMAIN state.query_history :
                      i # j => Range(state.query_history[i].clues_found)
                                  \cap Range(state.query_history[j].clues_found) = {}
          /\ engine.eval_result # None =>
                \A k \in DOMAIN engine.eval_result[1].result.new_clues_found :
                   engine.eval_result[1].result.new_clues_found[k]
                       \in evaluator.found_clues)
    /\ [][/\ evaluator.found_clues \subseteq evaluator'.found_clues
          /\ IsPrefix(state.clues_found, state'.clues_found)
          /\ (engine.pc = "turn" /\ engine'.eval_result # None) =>
                Range(engine'.eval_result[1].result.new_clues_found) =
                    evaluator'.found_clues \ evaluator.found_clues]_vars

\* the query that revealed three clues in the first turn was run again in
\* the second and revealed nothing new
C25_Witness ==
    /\ Len(state.query_history) = 2
    /\ state.query_history[1].sql = state.query_history[2].sql
    /\ Len(state.query_history[1].clues_found) = 3
    /\ state.query_history[2].clues_found = << >>
    /\ state.clues_found = state.query_history[1].clues_found
    /\ Cardinality(evaluator.found_clues) = 3

\* the points of the clues of a list, clue by clue
RECURSIVE CluePoints(_)
CluePoints(clue_ids) ==
    IF clue_ids = << >> THEN 0
    ELSE (CASE Head(clue_ids) \in {"crime_scene", "guest_list", "criminal_record"} -> 10
            [] Head(clue_ids) \in {"last_call", "poison_evidence"} -> 15
            [] OTHER -> 20)
         + CluePoints(Tail(clue_ids))

\* the accusation made names Sofia or Chen
AccusedCorrectly ==
    state.accusation # None /\ state.accusation[1] \in {"Sofia Chen", "the kitchen staff"}

C27_TurnsWithinMaxTurns ==
    /\ [](/\ state.max_turns = 10
          /\ state.turn_number \in 0..state.max_turns
          /\ engine.pc = "turn" =>
                state.turn_number \in 1..9 /\ ~state.game_over
          /\ engine.pc = "resolution" =>
                /\ state.turn_number = 10
                /\ ~state.game_over
                /\ state.accusation = None
          /\ state.turn_number = 10 =>
                engine.pc \in {"resolution", "final", "cleanup", "done"}
          /\ state.accusation # None =>
                state.turn_number = 10 /\ state.game_over)
    /\ [][/\ state'.turn_number # state.turn_number =>
                /\ state'.turn_number = state.turn_number + 1
                /\ engine.pc = "loop"
                /\ ~state.game_over
                /\ engine'.pc \in {"turn", "resolution"}
          /\ engine'.pc \in {"turn", "resolution"} /\ engine.pc # engine'.pc =>
                state'.turn_number = state.turn_number + 1
          /\ engine.pc = "resolution" => engine'.pc = "final" /\ state'.game_over
          /\ engine.pc \in {"final", "cleanup", "done"} =>
                engine'.pc \in {"cleanup", "done"}
          /\ state.game_over => state'.game_over /\ state'.turn_number = state.turn_number]_vars

\* nine query turns were played and the tenth took the accusation
C27_Witness ==
    /\ engine.pc = "final"
    /\ state.turn_number = 10
    /\ Len(state.query_history) = 9
    /\ state.accusation = Some("the wife")

\* C28: if in every turn the player eventually enters "quit" (the end of the
\* input counts as "quit") or a query that executes, run terminates: the
\* game is over by "quit" or after the resolution turn, the final score was
\* shown exactly once, and cleanup then closed the database connection.
C28_RunTerminates ==
    /\ <>(engine.pc = "done")
    /\ [](engine.pc = "done" =>
             /\ state.game_over
             /\ \/ engine.user_input = Some("quit")
                \/ engine.user_input = Some("QUIT")
                \/ state.turn_number = 10 /\ state.accusation # None
             /\ engine.final_scores_shown = 1
             /\ ~adapter.conn)
    /\ [](/\ engine.final_scores_shown \in {0, 1}
          /\ engine.final_scores_shown = 1 <=> engine.pc \in {"cleanup", "done"}
          /\ ~adapter.conn <=> engine.pc = "done")

\* the player typed schema, asked for a hint, then ended the input in the
\* fourth turn: the score was shown and the connection closed
C28_Witness ==
    /\ engine.pc = "done"
    /\ state.turn_number = 4
    /\ state.hints_used = 1
    /\ engine.user_input = Some("quit")
    /\ state.accusation = None
    /\ engine.final_scores_shown = 1
    /\ ~adapter.conn

-----------------------------------------------------------------------------
(* Properties of the storyteller *)

\* C24: after any sequence of narrate_intro and narrate_discovery calls,
\* whether the API call of each succeeds or raises, conversation_history
\* holds at most 20 messages once a narrate_discovery call has ended, and a
\* history that grew past 20 was cut to its 16 most recent messages.
C24_HistoryBounded ==
    \A i \in DOMAIN calls :
       calls[i].op = "narrate_discovery" =>
          /\ Len(calls[i].history) <= 20
          /\ (~calls[i].raised /\ Len(calls[i].before) + 2 > 20) =>
                calls[i].history =
                    SubSeq(calls[i].before \o << "user", "assistant" >>,
                           Len(calls[i].before) - 13, Len(calls[i].before) + 2)

=============================================================================
